---------------------------- MODULE Spec2Model ----------------------------
(***************************************************************************)
(* A model of ceab.py: the CEAB constructor (the load pipeline of one      *)
(* workbook), CEAB.combine and read_ceab_data.                             *)
(*                                                                         *)
(* Representation.                                                         *)
(*   - A cell of a sheet is a sequence of at most one element: NaN is <<>> *)
(*     (a blank cell, as pandas reads it) and V(x) is <<x>>.               *)
(*   - A number x is held as the integer x * Scale, Scale a power of two,  *)
(*     so that every number of the model is a double without rounding;     *)
(*     N(k) is the whole number k.  The one computation of the code that   *)
(*     rounds, value / maxScore * 100, is compared with the bin edges as   *)
(*     the doubles compare (PercentCmp).                                   *)
(*   - A DataFrame is [cols |-> sequence of column names,                  *)
(*     rows |-> sequence of records over those columns].  The row index is *)
(*     kept only where the code reads it (the melted Data sheet).          *)
(*   - Of the columns of valid_keys_in, the model keeps the ones some code *)
(*     path reads plus one payload column per table; the other payload     *)
(*     columns ride along with their row exactly as the kept one does.     *)
(*   - An outcome of a call is [status |-> "ok", value |-> ...] or         *)
(*     [status |-> "raise", type |-> ..., msg |-> ...].                    *)
(***************************************************************************)
EXTENDS Integers, Sequences, FiniteSets, TLC

VARIABLES
    files,   \* the sources on disk: the call's inputs, fixed by Init
    objs,    \* the CEAB objects constructed so far, oldest first
    ret,     \* the outcome of the last call
    warns,   \* the warnings emitted by the last call, in order
    args,    \* the arguments of the last call
    pc       \* "start" before the first call, then the last call's name

vars == <<files, objs, ret, warns, args, pc>>

----------------------------------------------------------------------------
(* Bounds of the model.                                                    *)

Bits == 1           \* binary places of a number
MaxStudents == 2    \* rows of the wide Data sheet
MaxObjs == 3        \* CEAB objects held at once (SpecMerge)
MaxFiles == 2       \* files under the directory (SpecMerge)

Scale == 2 ^ Bits   \* numbers are multiples of 1/Scale

----------------------------------------------------------------------------
(* Cells and numbers.                                                      *)

NaN == <<>>
V(x) == <<x>>
N(k) == V(k * Scale)
isna(c) == c = NaN
Num(c) == c[1]

Abs(n) == IF n < 0 THEN -n ELSE n

\* numpy's round: to the nearest whole number, a tie going to the even one.
round(n) ==
    LET q == n \div Scale
        r == n % Scale
    IN  IF 2 * r < Scale THEN q * Scale
        ELSE IF 2 * r > Scale THEN (q + 1) * Scale
        ELSE IF q % 2 = 0 THEN q * Scale ELSE (q + 1) * Scale

IsWhole(n) == n % Scale = 0

Range(s) == {s[i] : i \in DOMAIN s}

RECURSIVE Flatten(_)
Flatten(ss) == IF ss = <<>> THEN <<>> ELSE Head(ss) \o Flatten(Tail(ss))

\* Let(v, F) is F(v) with v evaluated once, before F uses it.
Let(v, F(_)) == CHOOSE r \in {F(x) : x \in {v}} : TRUE

\* An argument of a call with its Python type.
Str(s) == [type |-> "str", value |-> s]
Dict(items) == [type |-> "dict", value |-> items]
Other(type, value) == [type |-> type, value |-> value]

Raise(type, msg) == [status |-> "raise", type |-> type, msg |-> msg]
Ok(value) == [status |-> "ok", value |-> value]

----------------------------------------------------------------------------
(* The schema and the sheets.                                              *)

Sheets ==
    [instructor |-> "1 - Instructor", course |-> "2 - Course",
     measurement |-> "3 - Measurement", data |-> "4 - Data"]

attribute_names == <<"instructor", "course", "measurement", "data">>

valid_keys_in ==
    [instructor |-> <<"instructorID", "lastName">>,
     course |-> <<"courseID", "instructorID">>,
     measurement |-> <<"measurementID", "courseID", "gradeScale", "maxScore",
                       "minPercentScore2", "minPercentScore3", "minPercentScore4">>,
     data |-> <<"dataID", "studentID", "measurementID", "value">>]

\* The columns in which the constructor reports a NaN.
no_nan_columns ==
    [t \in DOMAIN valid_keys_in |->
        IF t = "measurement"
        THEN SelectSeq(valid_keys_in[t],
                 LAMBDA c : c \notin {"maxScore", "minPercentScore2",
                                      "minPercentScore3", "minPercentScore4"})
        ELSE valid_keys_in[t]]

\* f'{table}ID'
IDColumn(table) == table \o "ID"

\* Equality of two cells as pandas evaluates ==: NaN equals nothing.
eq(a, b) == ~isna(a) /\ ~isna(b) /\ a = b

EmptyFrame == [cols |-> <<>>, rows |-> <<>>]

\* CEAB(): an empty DataFrame for each attribute.
EmptyCEAB == [a \in Range(attribute_names) |-> EmptyFrame]

----------------------------------------------------------------------------
(* The steps of the constructor.                                           *)

\* pd.read_excel of one sheet: a ValueError when the workbook has no such sheet.
read_sheet(data_file, attr) ==
    IF Sheets[attr] \in data_file.sheets
    THEN Ok(data_file[attr])
    ELSE Raise("ValueError", "Worksheet not found")

\* pd.melt with id_vars = studentID: one row per cell, column after column.
\* The wide sheet is [ids: the studentID column, meas: the headers of the
\* other columns, cells: cells[row][col]].
melt(data) ==
    LET n == Len(data.ids)
        c == Len(data.meas)
    IN  [k \in 1..(n * c) |->
            LET col == ((k - 1) \div n) + 1
                row == ((k - 1) % n) + 1
            IN  [index |-> k - 1,
                 studentID |-> data.ids[row],
                 measurementID |-> V(data.meas[col]),
                 value |-> data.cells[row][col]]]

dropna(rows) ==
    SelectSeq(rows, LAMBDA r : ~isna(r.studentID) /\ ~isna(r.measurementID)
                               /\ ~isna(r.value))

\* No filter on 0.
KeepZeros(rows) == rows

\* rows[rows['value'] != 0]
DropZeros(rows) == SelectSeq(rows, LAMBDA r : ~eq(r.value, N(0)))

\* dataID after a reset_index: the position among the remaining rows.
InsertPosition(rows) ==
    [cols |-> <<"dataID", "studentID", "measurementID", "value">>,
     rows |-> [i \in DOMAIN rows |->
                  [dataID |-> V(i - 1),
                   studentID |-> rows[i].studentID,
                   measurementID |-> rows[i].measurementID,
                   value |-> rows[i].value]]]

\* insert(0, 'dataID', index): the index still is the melted table's.
InsertDataID(rows) ==
    [cols |-> <<"dataID", "studentID", "measurementID", "value">>,
     rows |-> [i \in DOMAIN rows |->
                  [dataID |-> V(rows[i].index),
                   studentID |-> rows[i].studentID,
                   measurementID |-> rows[i].measurementID,
                   value |-> rows[i].value]]]

ReadData(data) == InsertDataID(DropZeros(dropna(melt(data))))

check_columns(df, sheet) ==
    LET valid == valid_keys_in[sheet]
        invalid == SelectSeq(df.cols, LAMBDA c : c \notin Range(valid))
        missing == SelectSeq(valid, LAMBDA c : c \notin Range(df.cols))
    IN  IF invalid # <<>> THEN Raise("ValueError", "Invalid column")
        ELSE IF missing # <<>> THEN Raise("ValueError", "Missing column")
        ELSE Ok(TRUE)

\* The NaN warnings of one table, column after column, row after row.
NanWarnings(df, table) ==
    Flatten([j \in DOMAIN no_nan_columns[table] |->
        LET column == no_nan_columns[table][j]
            rows == SelectSeq(df.rows, LAMBDA r : isna(r[column]))
        IN  [i \in DOMAIN rows |->
                [kind |-> "nan", table |-> table, column |-> column,
                 id |-> rows[i][IDColumn(table)]]]])

\* df = df[df[key] == value] for each item of criteria, in turn; a key that
\* is no column of the frame raises KeyError.
RECURSIVE FilterCriteria(_, _)
FilterCriteria(df, criteria) ==
    IF criteria = <<>> THEN Ok(df)
    ELSE IF Head(criteria)[1] \notin Range(df.cols)
    THEN Raise("KeyError",
               "Invalid key " \o Head(criteria)[1] \o " given in function get_from_table.")
    ELSE FilterCriteria(
             [df EXCEPT !.rows =
                 SelectSeq(@, LAMBDA r : eq(r[Head(criteria)[1]], V(Head(criteria)[2])))],
             Tail(criteria))

\* The IDs of the matching rows that have a maxScore only.
row_IDs_with_maxScore(self, table_name, criteria) ==
    LET rows == SelectSeq(FilterCriteria(self[table_name.value], criteria.value).value.rows,
                          LAMBDA r : ~isna(r.maxScore))
    IN  Ok([i \in DOMAIN rows |-> rows[i][IDColumn(table_name.value)]])

\* The attributes of a CEAB object other than its four table properties,
\* each with its Python type: those ceab.py defines and those every object
\* has.
OtherAttributes ==
    [n \in {"_data", "valid_keys_in", "__dict__"} |-> "dict"]
    @@ [n \in {"_attribute_names"} |-> "list"]
    @@ [n \in {"combine"} |-> "function"]
    @@ [n \in {"__init__", "read_sheet", "check_columns", "__add__",
               "get_row_IDs_matching_criteria"} |-> "method"]
    @@ [n \in {"__doc__", "__module__"} |-> "str"]
    @@ [n \in {"__class__"} |-> "type"]
    @@ [n \in {"__weakref__"} |-> "NoneType"]
    @@ [n \in {"__delattr__", "__eq__", "__ge__", "__getattribute__", "__gt__",
               "__hash__", "__le__", "__lt__", "__ne__", "__repr__", "__setattr__",
               "__str__"} |-> "method-wrapper"]
    @@ [n \in {"__dir__", "__format__", "__getstate__", "__init_subclass__",
               "__new__", "__reduce__", "__reduce_ex__", "__sizeof__",
               "__subclasshook__"} |-> "builtin_function_or_method"]

\* The keys of the dicts among them; the values of _data are the DataFrames.
DictKeys ==
    [_data |-> Range(attribute_names), valid_keys_in |-> DOMAIN valid_keys_in,
     __dict__ |-> {"_data", "_attribute_names"}]

\* getattr(self, name): a table, another attribute, or AttributeError.
getattr(self, name) ==
    IF name \in DOMAIN self THEN Ok(Other("DataFrame", self[name]))
    ELSE IF name \in DOMAIN OtherAttributes THEN Ok(Other(OtherAttributes[name], name))
    ELSE Raise("AttributeError", "'CEAB' object has no attribute '" \o name \o "'")

\* obj[key] of an object that is no dict and no DataFrame, key a str.
NotSubscriptable(type) ==
    Raise("TypeError",
          IF type = "list" THEN "list indices must be integers or slices, not str"
          ELSE IF type = "str" THEN "string indices must be integers"
          ELSE IF type = "type" THEN "type 'CEAB' is not subscriptable"
          ELSE "'" \o type \o "' object is not subscriptable")

\* The filter and the ID column on an attribute that is no DataFrame.  On a
\* dict, df[key] of a missing key is the KeyError the code catches; of a key
\* it has, df[key] == value is a DataFrame when df[key] is one, which as a
\* key of the dict cannot be hashed, and else a bool, which is no key of the
\* dict.  Without criteria the ID column is looked up at once.
RowIDsOfAttribute(found, table_name, criteria) ==
    IF found.type # "dict" THEN NotSubscriptable(found.type)
    ELSE IF criteria = <<>> THEN Raise("KeyError", IDColumn(table_name))
    ELSE IF found.value = "_data" /\ Head(criteria)[1] \in DictKeys[found.value]
    THEN Raise("TypeError", "'DataFrame' objects are mutable, thus they cannot be hashed")
    ELSE Raise("KeyError",
               "Invalid key " \o Head(criteria)[1] \o " given in function get_from_table.")

\* self is the four tables of the object; criteria is a dict, held as the
\* sequence of its <<column, value>> items, the columns strs and the values
\* scalars.  The message of the first TypeError names the type of criteria,
\* as the code formats it.
get_row_IDs_matching_criteria(self, table_name, criteria) ==
    IF table_name.type # "str"
    THEN Raise("TypeError", "A table_name of type " \o criteria.type \o " was passed")
    ELSE IF criteria.type # "dict"
    THEN Raise("TypeError", "A criteria of type " \o criteria.type \o " was passed")
    ELSE LET found == getattr(self, table_name.value)
         IN  IF found.status = "raise" THEN found
             ELSE IF found.value.type # "DataFrame"
             THEN RowIDsOfAttribute(found.value, table_name.value, criteria.value)
             ELSE Let(FilterCriteria(found.value.value, criteria.value),
                      LAMBDA df :
                          IF df.status = "raise" THEN df
                          ELSE IF IDColumn(table_name.value) \notin Range(df.value.cols)
                          THEN Raise("KeyError", IDColumn(table_name.value))
                          ELSE Ok([i \in DOMAIN df.value.rows |->
                                      df.value.rows[i][IDColumn(table_name.value)]]))

----------------------------------------------------------------------------
(* The scale normaliser.                                                   *)

\* The rows of one measurement: data['measurementID'] == measurement.
InGroup(r, measurement) == eq(r.measurementID, measurement)

\* value.round().astype(int) over the rows of one measurement.
RoundGroup(rows, measurement) ==
    [i \in DOMAIN rows |->
        IF InGroup(rows[i], measurement)
        THEN [rows[i] EXCEPT !.value = V(round(Num(@)))]
        ELSE rows[i]]

RECURSIVE RoundLoop(_, _)
RoundLoop(measurements, rows) ==
    IF measurements = <<>> THEN rows
    ELSE Let(RoundGroup(rows, Head(measurements)),
             LAMBDA rounded : RoundLoop(Tail(measurements), rounded))

\* a / b with its binary exponent: <<a * 2^i, b * 2^j, k>> with
\* b * 2^j <= a * 2^i < 2 * b * 2^j and k = j - i, for a, b > 0.
RECURSIVE Normalised(_, _, _)
Normalised(a, b, k) ==
    IF a < b THEN Normalised(2 * a, b, k - 1)
    ELSE IF 2 * b <= a THEN Normalised(a, 2 * b, k + 1)
    ELSE <<a, b, k>>

\* 2^52 modulo b, by squaring 2^13 twice
TwoTo52Mod(b) ==
    LET p13 == (2 ^ 13) % b
        p26 == (p13 * p13) % b
    IN  (p26 * p26) % b

\* The double a / b minus the quotient a / b, in units of the last of the 53
\* bits of the double, times b: 0 when the quotient is a double, else b - r
\* (rounded up) or -r (rounded down), r the remainder after 53 bits.
DivisionError(a, b) ==
    LET r == ((a % b) * TwoTo52Mod(b)) % b
    IN  IF r = 0 THEN 0 ELSE IF 2 * r > b THEN b - r ELSE -r

\* The double (a / b) * 100 against the number 100 * a / b when that number
\* is one of the model (a double of few bits): 1 above, -1 below, 0 equal.
\* The product carries 100 times the error of the division and is rounded to
\* the doubles around 100 * a / b, which lie 2^t last-bits of a / b apart
\* (half that below a power of two); a tie goes to the even one, the number.
RoundedAgainstExact(a, b) ==
    LET n == Normalised(a, b, 0)
        err == DivisionError(n[1], n[2])
        t == IF 100 * n[1] < 128 * n[2] THEN 6 ELSE 7
        below == IF 100 * n[1] = (2 ^ t) * n[2] THEN 2 ELSE 1
    IN  IF 200 * err > (2 ^ t) * n[2] THEN 1
        ELSE IF 200 * (-err) * below > (2 ^ t) * n[2] THEN -1
        ELSE 0

\* value / maxScore * 100 against bin, all three held as multiples of
\* 1/Scale: "gt", "lt", "eq", or "nan" when the percent is 0 / 0.  A maxScore
\* of 0 makes the percent infinite, with the sign of the value.  Where the
\* exact percent differs from bin it does so by 1 / (maxScore * Scale) or
\* more, far above the rounding of the two operations, and the doubles
\* compare as the numbers do; where it equals bin the rounding decides.
PercentCmp(value, maxScore, bin) ==
    LET exact == 100 * value * Scale
        edge == bin * maxScore
        sign == IF (value > 0) = (maxScore > 0) THEN 1 ELSE -1
        order == IF maxScore = 0 THEN (IF value > 0 THEN 1 ELSE -1)
                 ELSE IF exact # edge
                 THEN (IF (exact > edge) = (maxScore > 0) THEN 1 ELSE -1)
                 ELSE IF value = 0 THEN 0
                 ELSE sign * RoundedAgainstExact(Abs(value), Abs(maxScore))
    IN  IF maxScore = 0 /\ value = 0 THEN "nan"
        ELSE IF order > 0 THEN "gt" ELSE IF order < 0 THEN "lt" ELSE "eq"

\* bin < value / maxScore * 100
BelowPercent(bin, value, maxScore) == PercentCmp(value, maxScore, bin) = "gt"

\* bin = value / maxScore * 100
EqualsPercent(bin, value, maxScore) == PercentCmp(value, maxScore, bin) = "eq"

\* cut with right=False: every edge belongs to the bin above it.
cut_left_closed(value, maxScore, bins, scores) ==
    LET ids == Cardinality({i \in DOMAIN bins :
                   BelowPercent(bins[i], value, maxScore)
                   \/ EqualsPercent(bins[i], value, maxScore)})
    IN  IF ids = 0 \/ ids = Len(bins) THEN NaN ELSE N(scores[ids])

\* cut with every percent below the first edge put into the first bin.
cut_clipped(value, maxScore, bins, scores) ==
    LET below == Cardinality({i \in DOMAIN bins : BelowPercent(bins[i], value, maxScore)})
    IN  IF below = 0 THEN N(scores[1])
        ELSE IF below = Len(bins) THEN NaN ELSE N(scores[below])

\* pd.cut(value / maxScore * 100, bins, labels=scores, include_lowest=True)
\* of one value: searchsorted(side='left') counts the edges below the percent,
\* the first edge itself is moved into the first bin, and a percent at or
\* below no edge or above all of them has no label (NaN).
cut(value, maxScore, bins, scores) ==
    LET below == Cardinality({i \in DOMAIN bins : BelowPercent(bins[i], value, maxScore)})
        ids == IF EqualsPercent(bins[1], value, maxScore) THEN 1 ELSE below
    IN  IF ids = 0 \/ ids = Len(bins) THEN NaN ELSE N(scores[ids])

\* pd.cut refuses edges that decrease, and then edges that repeat.
BinsError(bins) ==
    IF \E i \in 1..(Len(bins) - 1) : bins[i + 1] < bins[i]
    THEN Raise("ValueError", "bins must increase monotonically")
    ELSE IF \E i \in 1..(Len(bins) - 1) : bins[i + 1] = bins[i]
    THEN Raise("ValueError", "Bin edges must be unique")
    ELSE Ok(TRUE)

\* The binning of the rows of one measurement, then astype(int), which
\* refuses a NaN, then the assignment.
BinGroup(rows, measurement, maxScore, bins, scores) ==
    LET labels == [i \in DOMAIN rows |->
                      IF InGroup(rows[i], measurement)
                      THEN cut(Num(rows[i].value), maxScore, bins, scores)
                      ELSE rows[i].value]
    IN  IF BinsError(bins).status = "raise" THEN BinsError(bins)
        ELSE IF \E i \in DOMAIN rows : isna(labels[i])
        THEN Raise("ValueError", "Cannot convert float NaN to integer")
        ELSE Ok([i \in DOMAIN rows |-> [rows[i] EXCEPT !.value = labels[i]]])

StandardBins == <<0, 50, 60, 85, 100>>
Scores == <<1, 2, 3, 4>>

\* The first row of the measurement table with this measurementID (.iloc[0]).
MeasurementRow(measurement_table, measurement) ==
    SelectSeq(measurement_table.rows, LAMBDA r : eq(r.measurementID, measurement))

MissingConfig == Raise("ValueError", "The maxScore is missing")
OutOfBounds == Raise("IndexError", "single positional indexer is out-of-bounds")

RECURSIVE StandardLoop(_, _, _)
StandardLoop(measurements, measurement_table, rows) ==
    IF measurements = <<>> THEN Ok(rows)
    ELSE LET found == MeasurementRow(measurement_table, Head(measurements))
         IN  IF found = <<>> THEN OutOfBounds
             ELSE IF isna(found[1].maxScore) THEN MissingConfig
             ELSE Let(BinGroup(rows, Head(measurements), Num(found[1].maxScore),
                               [i \in DOMAIN StandardBins |-> StandardBins[i] * Scale],
                               Scores),
                      LAMBDA binned :
                          IF binned.status = "raise" THEN binned
                          ELSE StandardLoop(Tail(measurements), measurement_table,
                                            binned.value))

required_data == <<"maxScore", "minPercentScore2", "minPercentScore3", "minPercentScore4">>

RECURSIVE CustomLoop(_, _, _)
CustomLoop(measurements, measurement_table, rows) ==
    IF measurements = <<>> THEN Ok(rows)
    ELSE LET found == MeasurementRow(measurement_table, Head(measurements))
         IN  IF found = <<>> THEN OutOfBounds
             ELSE IF \E i \in DOMAIN required_data : isna(found[1][required_data[i]])
             THEN MissingConfig
             ELSE LET row == found[1]
                      bins == <<0, Num(row.minPercentScore2), Num(row.minPercentScore3),
                                Num(row.minPercentScore4), 100 * Scale>>
                  IN  Let(BinGroup(rows, Head(measurements), Num(row.maxScore), bins, Scores),
                          LAMBDA binned :
                              IF binned.status = "raise" THEN binned
                              ELSE CustomLoop(Tail(measurements), measurement_table,
                                              binned.value))

\* The rows whose value is below 1 or above 4, each with its warning.
RangeWarnings(rows) ==
    LET out == SelectSeq(rows, LAMBDA r : Num(r.value) < 1 * Scale \/ Num(r.value) > 4 * Scale)
    IN  [i \in DOMAIN out |->
            [kind |-> "range", dataID |-> out[i].dataID,
             measurementID |-> out[i].measurementID, value |-> out[i].value]]

\* DataFrame.drop(columns=...)
drop(df, columns) ==
    LET cols == SelectSeq(df.cols, LAMBDA c : c \notin columns)
    IN  [cols |-> cols,
         rows |-> [i \in DOMAIN df.rows |-> [c \in Range(cols) |-> df.rows[i][c]]]]

----------------------------------------------------------------------------
(* The constructor.                                                        *)

None == [none |-> TRUE]
IsNone(data_file) == "none" \in DOMAIN data_file

Emitting(outcome, warnings) == [out |-> outcome, warns |-> warnings]

\* The scale conversions, the range check and the pruning of the measurement
\* table, on the four tables as read.
Normalise(tables, nans) ==
    LET IDs(gradeScale) ==
            get_row_IDs_matching_criteria(tables, Str("measurement"),
                                          Dict(<< <<"gradeScale", gradeScale>> >>))
        ceab == IDs("CEAB (1-4)")
        standard == IDs("Raw Scores (Standard Bins)")
        custom == IDs("Raw Scores (Custom Bins)")
        Pruned(rows) ==
            Emitting(
                Ok([tables EXCEPT
                      !.data = [@ EXCEPT !.rows = rows],
                      !.measurement =
                          drop(@, {"gradeScale", "maxScore", "minPercentScore2",
                                   "minPercentScore3", "minPercentScore4"})]),
                nans \o RangeWarnings(rows))
        Custom(binned) ==
            IF binned.status = "raise" THEN Emitting(binned, nans)
            ELSE IF custom.status = "raise" THEN Emitting(custom, nans)
            ELSE Let(CustomLoop(custom.value, tables.measurement, binned.value),
                     LAMBDA rebinned :
                         IF rebinned.status = "raise" THEN Emitting(rebinned, nans)
                         ELSE Pruned(rebinned.value))
    IN  IF ceab.status = "raise" THEN Emitting(ceab, nans)
        ELSE Let(RoundLoop(ceab.value, tables.data.rows),
                 LAMBDA rounded :
                     IF standard.status = "raise" THEN Emitting(standard, nans)
                     ELSE Let(StandardLoop(standard.value, tables.measurement, rounded),
                              Custom))

\* CEAB(data_file): the outcome and the warnings emitted on the way.
CEAB(data_file) ==
    IF IsNone(data_file) THEN Emitting(Ok(EmptyCEAB), <<>>)
    ELSE IF data_file.suffix # ".xlsx"
    THEN Emitting(Raise("TypeError", "invalid extension"), <<>>)
    ELSE IF \E a \in {"instructor", "course", "measurement"} :
                read_sheet(data_file, a).status = "raise"
    THEN Emitting(Raise("ValueError", "The sheet was not found in the Excel file"), <<>>)
    ELSE IF read_sheet(data_file, "data").status = "raise"
    THEN Emitting(read_sheet(data_file, "data"), <<>>)
    ELSE Let([instructor |-> read_sheet(data_file, "instructor").value,
              course |-> read_sheet(data_file, "course").value,
              measurement |-> read_sheet(data_file, "measurement").value,
              data |-> ReadData(read_sheet(data_file, "data").value)],
             LAMBDA tables :
                 LET refused == SelectSeq(attribute_names,
                                    LAMBDA a : check_columns(tables[a], a).status = "raise")
                 IN  IF refused # <<>>
                     THEN Emitting(check_columns(tables[refused[1]], refused[1]), <<>>)
                     ELSE Let(Flatten([j \in DOMAIN attribute_names |->
                                  NanWarnings(tables[attribute_names[j]], attribute_names[j])]),
                              LAMBDA nans : Normalise(tables, nans)))

----------------------------------------------------------------------------
(* combine and read_ceab_data.                                             *)

\* pd.concat of two frames: the columns of the first, then the new ones of
\* the second; a row has NaN in a column its frame lacks.
concat(a, b) ==
    LET cols == a.cols \o SelectSeq(b.cols, LAMBDA c : c \notin Range(a.cols))
        rows == a.rows \o b.rows
    IN  [cols |-> cols,
         rows |-> [i \in DOMAIN rows |->
                      [c \in Range(cols) |->
                          IF c \in DOMAIN rows[i] THEN rows[i][c] ELSE NaN]]]

\* drop_duplicates(subset, keep='first'): a row goes when an earlier row has
\* the same cell in that column (two NaN count as the same).
drop_duplicates(df, subset) ==
    LET kept == {i \in DOMAIN df.rows :
                    \A j \in 1..(i - 1) : df.rows[j][subset] # df.rows[i][subset]}
        Pick[i \in 0..Len(df.rows)] ==
            IF i = 0 THEN <<>>
            ELSE IF i \in kept THEN Append(Pick[i - 1], df.rows[i]) ELSE Pick[i - 1]
    IN  [cols |-> df.cols, rows |-> Pick[Len(df.rows)]]

\* One table of combine: columns[0] of a frame without columns is an IndexError.
CombineTable(a, b) ==
    Let(concat(a, b),
        LAMBDA both :
            IF both.cols = <<>>
            THEN Raise("IndexError", "index 0 is out of bounds for axis 0 with size 0")
            ELSE Ok(drop_duplicates(both, both.cols[1])))

\* The loop of combine stops at the first table that raises.
combine(first, second) ==
    Let([a \in Range(attribute_names) |-> CombineTable(first[a], second[a])],
        LAMBDA made :
            LET refused == SelectSeq(attribute_names, LAMBDA a : made[a].status = "raise")
            IN  IF refused # <<>> THEN made[refused[1]]
                ELSE Ok([a \in Range(attribute_names) |-> made[a].value]))

\* The walk of read_ceab_data with a pattern.  An entry of the directory is
\* [matches: whether re.match accepts its relative path, book: the file].
RECURSIVE Walk(_, _, _, _)
Walk(entries, ceab, first_file, warnings) ==
    IF entries = <<>> THEN Emitting(Ok(ceab), warnings)
    ELSE IF ~Head(entries).matches
    THEN Walk(Tail(entries), ceab, first_file, warnings)
    ELSE Let(CEAB(Head(entries).book),
             LAMBDA made :
                 IF made.out.status = "raise"
                 THEN Emitting(made.out, warnings \o made.warns)
                 ELSE IF first_file
                 THEN Walk(Tail(entries), made.out.value, FALSE, warnings \o made.warns)
                 ELSE Let(combine(ceab, made.out.value),
                          LAMBDA sum :
                              IF sum.status = "raise"
                              THEN Emitting(sum, warnings \o made.warns)
                              ELSE Walk(Tail(entries), sum.value, FALSE,
                                        warnings \o made.warns)))

\* read_ceab_data(path, pattern): with a pattern the path is a directory
\* (its entries in the order os.walk finds them), without one it is a file.
read_ceab_data(path, pattern) ==
    IF pattern THEN Walk(path, None, TRUE, <<>>) ELSE CEAB(path)

----------------------------------------------------------------------------
(* The workbooks the model loads.                                          *)

Frame(cols, rows) == [cols |-> cols, rows |-> rows]

Instructor(id, name) == [instructorID |-> id, lastName |-> name]
Course(id, instructor) == [courseID |-> id, instructorID |-> instructor]
Measurement(id, course, scale, maxScore, p2, p3, p4) ==
    [measurementID |-> id, courseID |-> course, gradeScale |-> scale,
     maxScore |-> maxScore, minPercentScore2 |-> p2, minPercentScore3 |-> p3,
     minPercentScore4 |-> p4]

AllSheets == {Sheets[a] : a \in DOMAIN Sheets}

Book(instructor, course, measurement, data) ==
    [suffix |-> ".xlsx", sheets |-> AllSheets,
     instructor |-> instructor, course |-> course,
     measurement |-> Frame(valid_keys_in.measurement, measurement),
     data |-> data]

OneInstructor == Frame(valid_keys_in.instructor, <<Instructor(V("i1"), V("Smith"))>>)
OneCourse == Frame(valid_keys_in.course, <<Course(V("c1"), V("i1"))>>)

\* The wide Data sheet of n students (numbered from 1) over the given columns.
Wide(n, meas, cells) == [ids |-> [i \in 1..n |-> V(i)], meas |-> meas, cells |-> cells]

WideSheets(meas, rowCounts, values) ==
    UNION {{Wide(n, meas, cells) : cells \in [1..n -> [DOMAIN meas -> values]]} :
              n \in rowCounts}

\* Cells of the structural workbooks: blank, 0, a value that rounds to 0 and
\* a fraction between 1 and 4.
CellValues == {NaN, N(0), V(1), V(2 * Scale + 1)}

GradeScales ==
    {V("CEAB (1-4)"), V("Raw Scores (Standard Bins)"), V("Raw Scores (Custom Bins)"),
     V("Percent")}

\* maxScore and the three thresholds of a measurement row.
Configs ==
    {<<N(100), N(40), N(70), N(90)>>, <<NaN, N(40), N(70), N(90)>>,
     <<N(100), N(40), NaN, N(90)>>}

MeasurementRows(id, scales, configs) ==
    {Measurement(V(id), V("c1"), s, c[1], c[2], c[3], c[4]) : s \in scales, c \in configs}

\* The Measurement sheets: none or one row for m1, then none or a CEAB row
\* for m2.  measurementID is the sheet's key: no two rows share it.
MeasurementSheets ==
    LET first == {<<>>} \cup {<<r>> : r \in MeasurementRows("m1", GradeScales, Configs)}
        second == {<<>>} \cup {<<r>> : r \in MeasurementRows("m2", {V("CEAB (1-4)")},
                                                           {<<NaN, NaN, NaN, NaN>>})}
    IN  {a \o b : a \in first, b \in second}

StructuralBooks ==
    {Book(OneInstructor, OneCourse, m, d) :
        m \in MeasurementSheets,
        d \in WideSheets(<<"m1", "m2">>, 0..MaxStudents, CellValues)}

\* Scores on the 1-4 scale, in and out of range, and raw scores around every
\* edge of the standard and the custom bins; 11 of 20 and 55 of 100 are 55
\* percent as numbers and a little more as doubles.
BinValues ==
    {N(k) : k \in {-10, 1, 4, 5, 10, 11, 12, 17, 20, 25, 30, 35, 45, 50, 51, 55, 60,
                   61, 70, 85, 86, 90, 100, 110}}
    \cup {V(1), V(4 * Scale + 1), V(50 * Scale + 1)}

BinConfigs ==
    {<<m, p[1], p[2], p[3]>> :
        m \in {NaN, N(0), N(20), N(50), N(100), N(-100)},
        p \in {<<N(40), N(70), N(90)>>, <<N(55), N(70), N(90)>>, <<NaN, N(70), N(90)>>, <<N(40), NaN, N(90)>>,
               <<N(40), N(70), NaN>>, <<N(70), N(40), N(90)>>, <<N(40), N(40), N(90)>>}}

BinBooks ==
    {Book(OneInstructor, OneCourse, <<m>>, d) :
        m \in MeasurementRows("m1", GradeScales, BinConfigs),
        d \in WideSheets(<<"m1">>, {1}, BinValues)}

\* Workbooks off the template: a wrong extension, a sheet that is not there,
\* columns out of order, one too many, one too few, blanks in key columns.
BaseBook ==
    Book(OneInstructor, OneCourse,
         <<Measurement(V("m1"), V("c1"), V("CEAB (1-4)"), NaN, NaN, NaN, NaN)>>,
         Wide(1, <<"m1">>, <<<<N(3)>>>>))

OddBooks ==
    {[BaseBook EXCEPT !.suffix = ".csv"],
     [BaseBook EXCEPT !.sheets = @ \ {Sheets.course}],
     [BaseBook EXCEPT !.sheets = @ \ {Sheets.data}],
     [BaseBook EXCEPT !.instructor.cols = <<"lastName", "instructorID">>],
     [BaseBook EXCEPT !.instructor =
         Frame(<<"instructorID", "lastName", "email">>,
               <<[instructorID |-> V("i1"), lastName |-> V("Smith"), email |-> NaN]>>)],
     [BaseBook EXCEPT !.course = Frame(<<"courseID">>, <<[courseID |-> V("c1")]>>)],
     [BaseBook EXCEPT !.instructor.rows = <<Instructor(V("i1"), NaN)>>],
     [BaseBook EXCEPT !.data.ids = <<NaN>>],
     [BaseBook EXCEPT !.measurement.rows =
         <<Measurement(NaN, V("c1"), V("Raw Scores (Standard Bins)"), N(100), NaN, NaN, NaN)>>],
     [BaseBook EXCEPT !.measurement.rows =
         <<Measurement(V("m1"), V("c1"), NaN, NaN, NaN, NaN, NaN)>>]}

LoadBooks == StructuralBooks \cup BinBooks \cup OddBooks

----------------------------------------------------------------------------
(* The constructor on one workbook.                                        *)

Entry(matches, book) == [matches |-> matches, book |-> book]

NoCall == [status |-> "none"]

InitLoad ==
    /\ files \in {<<Entry(TRUE, b)>> : b \in LoadBooks}
    /\ objs = <<>>
    /\ ret = NoCall
    /\ warns = <<>>
    /\ args = <<>>
    /\ pc = "start"

\* An object the caller got back is held from then on.
Held(outcome) ==
    IF outcome.status = "ok" /\ ~IsNone(outcome.value)
    THEN Append(objs, outcome.value) ELSE objs

\* CEAB(files[i])
Load(i) ==
    /\ Len(objs) < MaxObjs
    /\ \E made \in {CEAB(files[i].book)} :
           /\ ret' = made.out
           /\ warns' = made.warns
           /\ objs' = Held(made.out)
    /\ args' = <<files[i].book>>
    /\ pc' = "CEAB"
    /\ UNCHANGED files

NextLoad == pc = "start" /\ \E i \in DOMAIN files : Load(i)

Spec == InitLoad /\ [][NextLoad]_vars

----------------------------------------------------------------------------
(* Objects combined, and a directory read.                                 *)

CeabRow(id) == Measurement(V(id), V("c1"), V("CEAB (1-4)"), NaN, NaN, NaN, NaN)

\* Two workbooks that share an instructor, a course and (as any two loads do)
\* the dataID 0; one with an instructorID twice; one with the instructor
\* columns out of order; one with headers only; one that does not load.
MergeBooks ==
    {Book(Frame(valid_keys_in.instructor,
                <<Instructor(V("i1"), V("Smith")), Instructor(V("i2"), V("Jones"))>>),
          OneCourse, <<CeabRow("m1")>>, Wide(1, <<"m1">>, <<<<N(3)>>>>)),
     Book(Frame(valid_keys_in.instructor,
                <<Instructor(V("i1"), V("Brown")), Instructor(V("i3"), V("Lee"))>>),
          Frame(valid_keys_in.course, <<Course(V("c2"), V("i3")), Course(V("c1"), V("i3"))>>),
          <<CeabRow("m2")>>, Wide(1, <<"m2">>, <<<<N(2)>>>>)),
     Book(Frame(valid_keys_in.instructor,
                <<Instructor(V("i1"), V("Smith")), Instructor(V("i1"), V("Brown"))>>),
          OneCourse, <<CeabRow("m1")>>, Wide(2, <<"m1">>, <<<<NaN>>, <<N(4)>>>>)),
     Book(Frame(<<"lastName", "instructorID">>,
                <<Instructor(V("i1"), V("Smith")), Instructor(V("i2"), V("Smith"))>>),
          OneCourse, <<CeabRow("m1")>>, Wide(1, <<"m1">>, <<<<N(1)>>>>)),
     Book(Frame(valid_keys_in.instructor, <<>>), Frame(valid_keys_in.course, <<>>),
          <<>>, Wide(0, <<"m1">>, <<>>)),
     [BaseBook EXCEPT !.suffix = ".csv"]}

Directories ==
    UNION {[1..n -> {Entry(m, b) : m \in BOOLEAN, b \in MergeBooks}] : n \in 0..MaxFiles}

InitMerge ==
    /\ files \in Directories
    /\ objs = <<>>
    /\ ret = NoCall
    /\ warns = <<>>
    /\ args = <<>>
    /\ pc = "start"

\* CEAB()
New ==
    /\ Len(objs) < MaxObjs
    /\ ret' = CEAB(None).out
    /\ warns' = CEAB(None).warns
    /\ objs' = Held(CEAB(None).out)
    /\ args' = <<None>>
    /\ pc' = "CEAB"
    /\ UNCHANGED files

\* CEAB.combine(objs[i], objs[j]), which is objs[i] + objs[j]
Combine(i, j) ==
    /\ Len(objs) < MaxObjs
    /\ \E sum \in {combine(objs[i], objs[j])} :
           /\ ret' = sum
           /\ objs' = Held(sum)
    /\ warns' = <<>>
    /\ args' = <<objs[i], objs[j]>>
    /\ pc' = "combine"
    /\ UNCHANGED files

\* read_ceab_data(path, pattern) on the directory
ReadDirectory ==
    /\ Len(objs) < MaxObjs
    /\ \E read \in {read_ceab_data(files, TRUE)} :
           /\ ret' = read.out
           /\ warns' = read.warns
           /\ objs' = Held(read.out)
    /\ args' = <<files, TRUE>>
    /\ pc' = "read_ceab_data"
    /\ UNCHANGED files

\* read_ceab_data(path) on one file
ReadFile(i) ==
    /\ Len(objs) < MaxObjs
    /\ \E read \in {read_ceab_data(files[i].book, FALSE)} :
           /\ ret' = read.out
           /\ warns' = read.warns
           /\ objs' = Held(read.out)
    /\ args' = <<files[i].book, FALSE>>
    /\ pc' = "read_ceab_data"
    /\ UNCHANGED files

\* The queries, as <<table_name, criteria>>: a table with and without the
\* column asked for, a name that is no attribute, attributes that are no
\* table, and arguments of the wrong type.
Queries ==
    {<<Str("measurement"), Dict(<<>>)>>,
     <<Str("measurement"), Dict(<< <<"gradeScale", "CEAB (1-4)">> >>)>>,
     <<Str("course"), Dict(<< <<"courseID", "c1">>, <<"instructorID", "i3">> >>)>>,
     <<Str("nosuch"), Dict(<<>>)>>,
     <<Str("_data"), Dict(<<>>)>>,
     <<Str("_data"), Dict(<< <<"course", "c1">> >>)>>,
     <<Str("valid_keys_in"), Dict(<< <<"course", "c1">> >>)>>,
     <<Str("combine"), Dict(<<>>)>>,
     <<Other("int", 5), Dict(<<>>)>>,
     <<Str("measurement"), Other("list", << <<"courseID", "c1">> >>)>>}

\* objs[i].get_row_IDs_matching_criteria(table_name, criteria)
GetRowIDs(i, table_name, criteria) ==
    /\ ret' = get_row_IDs_matching_criteria(objs[i], table_name, criteria)
    /\ warns' = <<>>
    /\ args' = <<objs[i], table_name, criteria>>
    /\ pc' = "get_row_IDs_matching_criteria"
    /\ UNCHANGED <<files, objs>>

NextMerge ==
    \/ New
    \/ \E i \in DOMAIN files : Load(i)
    \/ \E i \in DOMAIN objs, j \in DOMAIN objs : Combine(i, j)
    \/ ReadDirectory
    \/ \E i \in DOMAIN files : ReadFile(i)
    \/ \E i \in DOMAIN objs, q \in Queries : GetRowIDs(i, q[1], q[2])

SpecMerge == InitMerge /\ [][NextMerge]_vars

----------------------------------------------------------------------------
(* What the claims speak of.                                               *)

\* The last call was CEAB(book) of a workbook; it completed.
LoadCalled == pc = "CEAB" /\ ~IsNone(args[1])
Loaded == LoadCalled /\ ret.status = "ok"

\* The cells of the wide Data sheet in the order of the reshaped table, each
\* with its 0-based position there: column after column, student after student.
Cells(book) ==
    LET n == Len(book.data.ids)
    IN  {[pos |-> (c - 1) * n + (r - 1), studentID |-> book.data.ids[r],
          measurementID |-> V(book.data.meas[c]), raw |-> book.data.cells[r][c]] :
            r \in 1..n, c \in DOMAIN book.data.meas}

\* The cells that stay after the blank and the zero ones are removed.
Remaining(book) ==
    {c \in Cells(book) : ~isna(c.raw) /\ c.raw # N(0) /\ ~isna(c.studentID)}

\* The DataPoint rows made from a cell.
RowsOf(cell) ==
    {i \in DOMAIN ret.value.data.rows :
        /\ ret.value.data.rows[i].studentID = cell.studentID
        /\ ret.value.data.rows[i].measurementID = cell.measurementID}

\* lo < raw / maxScore * 100 <= hi, lo and hi whole numbers
PercentWithin(raw, maxScore, lo, hi) ==
    /\ PercentCmp(Num(raw), Num(maxScore), lo * Scale) = "gt"
    /\ PercentCmp(Num(raw), Num(maxScore), hi * Scale) \in {"lt", "eq"}

\* raw / maxScore * 100 < 0
PercentNegative(raw, maxScore) == PercentCmp(Num(raw), Num(maxScore), 0) = "lt"

Standard(m) == m.gradeScale = V("Raw Scores (Standard Bins)")
Custom(m) == m.gradeScale = V("Raw Scores (Custom Bins)")

RangeWarned(row) ==
    \E i \in DOMAIN warns :
        /\ warns[i].kind = "range"
        /\ warns[i].dataID = row.dataID
        /\ warns[i].measurementID = row.measurementID
        /\ warns[i].value = row.value

----------------------------------------------------------------------------
(* C3: after a load that completes, every DataPoint row has a whole value  *)
(* from 1 to 4 or a range warning naming it was emitted.  The range check   *)
(* compares with 1 and 4 only, so a fraction in between goes unreported.    *)
C3_WholeOrWarned ==
    Loaded =>
        \A i \in DOMAIN ret.value.data.rows :
            LET row == ret.value.data.rows[i]
            IN  \/ /\ IsWhole(Num(row.value))
                   /\ 1 * Scale <= Num(row.value)
                   /\ Num(row.value) <= 4 * Scale
                \/ RangeWarned(row)

(* C4: under "Raw Scores (Standard Bins)" with a maxScore, a data point     *)
(* whose percent is in (0,50] becomes 1, in (50,60] 2, in (60,85] 3 and in  *)
(* (85,100] 4: the edges 50, 60 and 85 belong to the lower bin.             *)
C4_StandardBins ==
    Loaded =>
        \A k \in DOMAIN args[1].measurement.rows :
            LET m == args[1].measurement.rows[k]
            IN  Standard(m) /\ ~isna(m.maxScore) =>
                    \A c \in Remaining(args[1]) :
                        c.measurementID = m.measurementID =>
                            \A b \in 1..4 :
                                PercentWithin(c.raw, m.maxScore,
                                              StandardBins[b], StandardBins[b + 1]) =>
                                    /\ RowsOf(c) # {}
                                    /\ \A i \in RowsOf(c) :
                                           ret.value.data.rows[i].value = N(b)

\* A raw 60 of 100, on the edge of two bins, became 2.
C4_Witness ==
    /\ Loaded
    /\ \E k \in DOMAIN args[1].measurement.rows :
           /\ Standard(args[1].measurement.rows[k])
           /\ args[1].measurement.rows[k].maxScore = N(100)
    /\ \E c \in Remaining(args[1]) :
           /\ c.raw = N(60)
           /\ \E i \in RowsOf(c) : ret.value.data.rows[i].value = N(2)

(* C5: a percent that equals the threshold of score 2 becomes 2: raw 0, 50, *)
(* 60, 85, 100 of 100 become 1, 2, 2, 3, 4 under the standard bins, and     *)
(* under custom bins 40, 70, 90 with maxScore 50 raw 20 becomes 2 and raw   *)
(* 10 becomes 1.                                                            *)
C5_ThresholdIsScore2 ==
    Loaded =>
        \A k \in DOMAIN args[1].measurement.rows :
            LET m == args[1].measurement.rows[k]
                Becomes(raw, score) ==
                    \A c \in Cells(args[1]) :
                        c.measurementID = m.measurementID /\ c.raw = N(raw) =>
                            /\ RowsOf(c) # {}
                            /\ \A i \in RowsOf(c) : ret.value.data.rows[i].value = N(score)
            IN  /\ Standard(m) /\ m.maxScore = N(100) =>
                    /\ Becomes(0, 1) /\ Becomes(50, 2) /\ Becomes(60, 2)
                    /\ Becomes(85, 3) /\ Becomes(100, 4)
                /\ /\ Custom(m) /\ m.maxScore = N(50) /\ m.minPercentScore2 = N(40)
                   /\ m.minPercentScore3 = N(70) /\ m.minPercentScore4 = N(90)
                   => Becomes(20, 2) /\ Becomes(10, 1)

\* A measurement row whose scale needs a configuration cell that is blank.
LacksConfig(m) ==
    \/ Standard(m) /\ isna(m.maxScore)
    \/ /\ Custom(m)
       /\ \/ isna(m.maxScore) \/ isna(m.minPercentScore2)
          \/ isna(m.minPercentScore3) \/ isna(m.minPercentScore4)

(* C6: a load fails, with no dataset, whenever a Measurement row lacks the  *)
(* configuration its scale needs, with or without data points; and when no  *)
(* row lacks it, the missing-configuration error is not raised.             *)
C6_MissingConfigFails ==
    LoadCalled /\ Sheets.measurement \in args[1].sheets =>
        LET rows == args[1].measurement.rows
        IN  /\ (\E k \in DOMAIN rows : LacksConfig(rows[k]))
                => ret.status = "raise" /\ Len(objs) = 0
            /\ (\A k \in DOMAIN rows : ~LacksConfig(rows[k]))
                => ret # MissingConfig

\* The load raised the missing-configuration error for a custom-bins row of
\* a workbook whose Data sheet has no data point for it.
C6_Witness ==
    /\ LoadCalled
    /\ ret = MissingConfig
    /\ \E k \in DOMAIN args[1].measurement.rows :
           LET m == args[1].measurement.rows[k]
           IN  /\ Custom(m) /\ ~isna(m.maxScore)
               /\ \A c \in Remaining(args[1]) : c.measurementID # m.measurementID

(* C8 as claimed: the dataIDs of the remaining rows are 0, 1, ..., n-1 in    *)
(* row order.  The dataID is the index the reshaped table had before the    *)
(* blank and zero rows were removed, so a removed cell leaves a gap.        *)
C8_Contiguous ==
    Loaded =>
        \A i \in DOMAIN ret.value.data.rows : ret.value.data.rows[i].dataID = V(i - 1)

(* C8 as amended: the rows are the remaining cells in the order of the     *)
(* reshaped table, each with its 0-based position in that table before the  *)
(* removal as dataID; the dataIDs increase along the rows, none repeats.    *)
C8_PositionBeforeRemoval ==
    Loaded =>
        LET rows == ret.value.data.rows
        IN  /\ Len(rows) = Cardinality(Remaining(args[1]))
            /\ \A i \in DOMAIN rows :
                   \E c \in Remaining(args[1]) :
                       /\ rows[i].dataID = V(c.pos)
                       /\ rows[i].studentID = c.studentID
                       /\ rows[i].measurementID = c.measurementID
            /\ \A i \in DOMAIN rows : \A j \in DOMAIN rows :
                   i < j => Num(rows[i].dataID) < Num(rows[j].dataID)

\* Two rows remain and a cell between or before them was removed.
C8_Witness ==
    /\ Loaded
    /\ Len(ret.value.data.rows) >= 2
    /\ \E i \in DOMAIN ret.value.data.rows : ret.value.data.rows[i].dataID # V(i - 1)

(* C9 as claimed: no DataPoint row of a completed load has value 0 or a     *)
(* blank value.  Rounding under "CEAB (1-4)" comes after the zeros are      *)
(* removed and turns a small value into 0.                                  *)
C9_NoZeroNoBlank ==
    Loaded =>
        \A i \in DOMAIN ret.value.data.rows :
            /\ ~isna(ret.value.data.rows[i].value)
            /\ ret.value.data.rows[i].value # N(0)

(* C9 as amended: no row has a blank value, a blank or 0 cell makes no row, *)
(* and a row has value 0 only when a nonzero cell of a "CEAB (1-4)"         *)
(* measurement was rounded to 0, and then a range warning names it.         *)
C9_ZeroOnlyByRounding ==
    Loaded =>
        LET rows == ret.value.data.rows
        IN  /\ \A i \in DOMAIN rows : ~isna(rows[i].value)
            /\ \A c \in Cells(args[1]) : isna(c.raw) \/ c.raw = N(0) => RowsOf(c) = {}
            /\ \A i \in DOMAIN rows :
                   rows[i].value = N(0) =>
                       /\ \E k \in DOMAIN args[1].measurement.rows :
                              /\ args[1].measurement.rows[k].measurementID = rows[i].measurementID
                              /\ args[1].measurement.rows[k].gradeScale = V("CEAB (1-4)")
                       /\ \E c \in Remaining(args[1]) : i \in RowsOf(c) /\ Num(c.raw) # 0
                       /\ RangeWarned(rows[i])

\* A load that dropped a blank cell and a 0 cell and rounded another to 0.
C9_Witness ==
    /\ Loaded
    /\ \E i \in DOMAIN ret.value.data.rows : ret.value.data.rows[i].value = N(0)
    /\ \E c \in Cells(args[1]) : isna(c.raw)
    /\ \E c \in Cells(args[1]) : c.raw = N(0)

\* A data point of a binned measurement, its configuration present, whose
\* percent is below 0.
NegativePoints(book) ==
    {c \in Remaining(book) :
        \E k \in DOMAIN book.measurement.rows :
            LET m == book.measurement.rows[k]
            IN  /\ Standard(m) \/ Custom(m)
                /\ ~LacksConfig(m)
                /\ m.measurementID = c.measurementID
                /\ PercentNegative(c.raw, m.maxScore)}

(* C10 as claimed: a data point of a binned measurement whose percent is    *)
(* below 0 becomes 1 and the load completes.  pd.cut leaves a percent below *)
(* the first edge without a label and astype(int) refuses it.               *)
C10_NegativeBecomes1 ==
    LoadCalled /\ Sheets.measurement \in args[1].sheets /\ Sheets.data \in args[1].sheets =>
        \A c \in NegativePoints(args[1]) :
            /\ ret.status = "ok"
            /\ RowsOf(c) # {}
            /\ \A i \in RowsOf(c) : ret.value.data.rows[i].value = N(1)

(* C10 as amended: such a data point makes the load fail: it raises, and    *)
(* no dataset is made.                                                      *)
C10_NegativeAborts ==
    LoadCalled /\ Sheets.measurement \in args[1].sheets /\ Sheets.data \in args[1].sheets =>
        (NegativePoints(args[1]) # {} => ret.status = "raise" /\ Len(objs) = 0)

\* A load with a negative raw score under the standard bins raised the
\* error of the integer cast.
C10_Witness ==
    /\ LoadCalled
    /\ ret = Raise("ValueError", "Cannot convert float NaN to integer")
    /\ \E c \in NegativePoints(args[1]) :
           \E k \in DOMAIN args[1].measurement.rows : Standard(args[1].measurement.rows[k])

----------------------------------------------------------------------------
(* combine and read_ceab_data.                                             *)

PrimaryKey ==
    [instructor |-> "instructorID", course |-> "courseID",
     measurement |-> "measurementID", data |-> "dataID"]

\* The rows whose key did not occur earlier in the sequence, in their order.
RECURSIVE FirstOfEachKey(_, _, _)
FirstOfEachKey(rows, key, seen) ==
    IF rows = <<>> THEN <<>>
    ELSE IF Head(rows)[key] \in seen THEN FirstOfEachKey(Tail(rows), key, seen)
    ELSE <<Head(rows)>> \o FirstOfEachKey(Tail(rows), key, seen \cup {Head(rows)[key]})

(* C1: for any two datasets, each table of combine(a, b) is a's rows then   *)
(* b's rows without every row whose primary key occurred earlier.  combine  *)
(* of two datasets built with no source raises instead (see C2).            *)
C1_FirstOfEachKey ==
    pc = "combine" =>
        /\ ret.status = "ok"
        /\ \A t \in Range(attribute_names) :
               ret.value[t].rows =
                   FirstOfEachKey(args[1][t].rows \o args[2][t].rows, PrimaryKey[t], {})

(* C2: for every dataset X, combine(X, E) with E built with no source       *)
(* completes and has, table by table, the rows of X in their order.  With   *)
(* X = E the concatenated frame has no column and columns[0] raises.        *)
C2_EmptyIsIdentity ==
    pc = "combine" /\ args[2] = EmptyCEAB =>
        /\ ret.status = "ok"
        /\ \A t \in Range(attribute_names) : ret.value[t].rows = args[1][t].rows

\* The datasets of the matching entries, in the order of discovery.
RECURSIVE Matching(_)
Matching(entries) ==
    IF entries = <<>> THEN <<>>
    ELSE IF Head(entries).matches
    THEN <<CEAB(Head(entries).book).out>> \o Matching(Tail(entries))
    ELSE Matching(Tail(entries))

RECURSIVE LeftCombine(_, _)
LeftCombine(sum, rest) ==
    IF rest = <<>> THEN sum
    ELSE LeftCombine(combine(sum, Head(rest).value).value, Tail(rest))

(* C7: read_ceab_data with a pattern always returns a Dataset: that of no   *)
(* source when nothing matches, else the left-to-right combine of the       *)
(* loaded matches.  With no match the function returns None.                *)
C7_ReadReturnsDataset ==
    pc = "read_ceab_data" /\ args[2] =>
        LET made == Matching(args[1])
        IN  (\A i \in DOMAIN made : made[i].status = "ok") =>
                /\ ret.status = "ok"
                /\ ~IsNone(ret.value)
                /\ ret.value = IF made = <<>> THEN EmptyCEAB
                               ELSE LeftCombine(made[1].value, Tail(made))

============================================================================
